---- MODULE Spec2Model ----
(***************************************************************************)
(* Streaming chat / tool-call orchestration of the Ollama chat client:     *)
(*   ollama_client.py  OllamaClient.chat_stream   (transport client)       *)
(*   tools.py          ToolRegistry               (tool registry)          *)
(*   ollama_chat.py    OllamaChatApp, ChatHistory (orchestrator, history)  *)
(*                                                                         *)
(* Encoding of Python / JSON values:                                       *)
(*   - a text is a sequence of tokens, "+" on str is \o, "" is <<>>;       *)
(*   - a dict is a record, "k in d" is k \in DOMAIN d;                     *)
(*   - a list is a sequence;                                               *)
(*   - JSON null is the record [null |-> TRUE];                            *)
(*   - a JSON value that is no object is the record [scalar |-> v];        *)
(*   - None (current_model) is the string "<None>".                        *)
(***************************************************************************)
EXTENDS Integers, Sequences, FiniteSets, TLC

\* ------------------------------------------------------------- bounds
\* accepted submissions (turns) in one behaviour
MaxTurns == 1
\* fragments consumed from one stream
MaxFrags == 2
\* files the history directory can hold
MaxSaved == 1
\* lines of one HTTP response body (client specification)
MaxLines == 3
\* tools a registry holds (registry specification)
MaxTools == 2
\* messages in a history of the history specification
MaxHistory == 3

\* ------------------------------------------------------ Python helpers
None == "<None>"
\* `not s` for a model name (None or the empty string)
Falsy(s) == s = None \/ s = ""
EmptyDict == [k \in {} |-> TRUE]
IsNull(v) == "null" \in DOMAIN v
IsObject(v) == ~("scalar" \in DOMAIN v) /\ ~IsNull(v)
\* d.get(k, default)
Get(d, k, default) == IF k \in DOMAIN d THEN d[k] ELSE default

\* str.strip() on the input box text: leading and trailing blanks removed
RECURSIVE LStrip(_)
LStrip(s) == IF s # <<>> /\ Head(s) = " " THEN LStrip(Tail(s)) ELSE s
RECURSIVE RStrip(_)
RStrip(s) ==
    IF s # <<>> /\ s[Len(s)] = " " THEN RStrip(SubSeq(s, 1, Len(s) - 1)) ELSE s
\* the input box text taken without .strip()
StripNothing(s) == s

Strip(s) == RStrip(LStrip(s))

\* ------------------------------------------------------- tool registry
TOOL_NAME == "get_top_cryptocurrencies"

\* ToolRegistry.__init__ / _register_default_tools: the one default tool
DefaultTools ==
    << [name |-> TOOL_NAME,
        description |-> "top 10 cryptocurrencies",
        function |-> "get_top_cryptocurrencies",
        parameters |-> <<>>] >>

ToolNames(reg) == {reg[i].name : i \in 1..Len(reg)}

\* get_tool_definitions listing the tools last registered first
get_tool_definitions_reversed(reg) ==
    [i \in 1..Len(reg) |->
        [type |-> "function",
         function |-> [name |-> reg[Len(reg) + 1 - i].name,
                       description |-> reg[Len(reg) + 1 - i].description,
                       parameters |-> reg[Len(reg) + 1 - i].parameters]]]

\* ToolRegistry.get_tool_definitions: one definition per tool, in dict order
get_tool_definitions(reg) ==
    [i \in 1..Len(reg) |->
        [type |-> "function",
         function |-> [name |-> reg[i].name,
                       description |-> reg[i].description,
                       parameters |-> reg[i].parameters]]]

\* json.dumps({"error": ...}) payloads and handler results, as texts
NotFoundPayload(name) == <<"{error: Tool '", name, "' not found}">>
ExecErrorPayload == <<"{error: Error executing tool: ...}">>
\* get_top_cryptocurrencies() catches its own failures and returns a dict
\* ({"success": ..., ...}) in every case; json.dumps of it is the result
HandlerResult == <<"{success: ..., ...}">>

\* An arguments value is a mapping (a record) or a value that is no mapping
\* (None, a number, a list): ArgsNoMapping.
ArgsNoMapping == [scalar |-> 5]

\* The callables a registry can hold: the default handler, which takes no
\* keyword argument; a handler that accepts any keyword arguments and returns
\* a serializable value; a handler that raises.
Handlers == {"get_top_cryptocurrencies", "echo", "failing"}
EchoResult == <<"{echo: ...}">>

\* lines 61-63: tool_function(**arguments) and json.dumps of its result.
\* `**arguments` raises TypeError when arguments is no mapping, and the call
\* raises TypeError when the handler does not take the keywords given.
CallHandler(function, arguments) ==
    IF arguments = ArgsNoMapping THEN [t |-> "raise"]
    ELSE IF function = "get_top_cryptocurrencies"
    THEN IF arguments # EmptyDict
         THEN [t |-> "raise"]
         ELSE [t |-> "return", value |-> HandlerResult]
    ELSE IF function = "echo" THEN [t |-> "return", value |-> EchoResult]
    ELSE [t |-> "raise"]

\* self.tools[tool_name]
Lookup(reg, tool_name) ==
    reg[CHOOSE i \in 1..Len(reg) : reg[i].name = tool_name]

\* execute_tool with the handler called outside the try block
execute_tool_no_try(reg, tool_name, arguments) ==
    IF tool_name \notin ToolNames(reg)
    THEN [t |-> "return", value |-> NotFoundPayload(tool_name)]
    ELSE CallHandler(Lookup(reg, tool_name).function, arguments)

\* ToolRegistry.execute_tool(tool_name, arguments): how the call ends, with
\* the text it returns
execute_tool(reg, tool_name, arguments) ==
    IF tool_name \notin ToolNames(reg)
    THEN [t |-> "return", value |-> NotFoundPayload(tool_name)]
    ELSE LET r == CallHandler(Lookup(reg, tool_name).function, arguments)
         IN  IF r.t = "raise"
             THEN [t |-> "return", value |-> ExecErrorPayload]
             ELSE r

\* ToolRegistry.register_tool: self.tools[name] = {...}; an existing key
\* keeps its place in the dict and gets the new value
register_tool(reg, name, description, function, parameters) ==
    LET entry == [name |-> name, description |-> description,
                  function |-> function, parameters |-> parameters]
    IN  [t |-> "return",
         tools |-> IF name \in ToolNames(reg)
                   THEN [i \in 1..Len(reg) |->
                           IF reg[i].name = name THEN entry ELSE reg[i]]
                   ELSE Append(reg, entry)]

\* ----------------------------------------------- tool calls and chunks
\* tool_call dicts a model can emit inside message.tool_calls
TcOk      == [function |-> [name |-> TOOL_NAME, arguments |-> EmptyDict]]
TcArgs    == [function |-> [name |-> TOOL_NAME, arguments |-> [limit |-> "5"]]]
TcUnknown == [function |-> [name |-> "nope", arguments |-> EmptyDict]]
TcNullFn  == [function |-> [null |-> TRUE]]
ToolCalls == {TcOk, TcArgs, TcUnknown, TcNullFn}

\* JSON values one response line can decode to
ContentChunk(c) == [message |-> [content |-> c], done |-> FALSE]
ToolChunk(tc) ==
    [message |-> [content |-> <<>>, tool_calls |-> <<tc>>], done |-> FALSE]
DoneChunk == [message |-> [content |-> <<>>], done |-> TRUE]
DoneTextChunk == [message |-> [content |-> <<"b">>], done |-> TRUE]
DoneFullChunk ==
    [message |-> [content |-> <<"b">>, tool_calls |-> <<TcUnknown>>],
     done |-> TRUE]
ServerErrorChunk == [error |-> "model not found"]
ScalarChunk == [scalar |-> 5]
\* the values the server sends in the initial stream of a turn
InitialChunks ==
    {ContentChunk(<<"a">>), ContentChunk(<<>>),
     DoneChunk, DoneTextChunk, DoneFullChunk, ServerErrorChunk, ScalarChunk}
    \cup {ToolChunk(tc) : tc \in ToolCalls}
\* the values the server sends in the follow-up stream (its tool calls are
\* never read, so one tool chunk stands for all)
FinalChunks ==
    {ContentChunk(<<"a">>), ToolChunk(TcOk),
     DoneChunk, DoneTextChunk, ServerErrorChunk, ScalarChunk}
Chunks == InitialChunks \cup FinalChunks

\* ---------------------------------------- OllamaClient.chat_stream
\* The fragment chat_stream yields when requests raises RequestException
TransportErrorFragment ==
    [error |-> "True", message |-> "Error communicating with Ollama: ..."]

\* One line of the response body, as response.iter_lines() gives it:
\*   blank    b""            (skipped by `if line`)
\*   garbage  not JSON       (json.loads raises JSONDecodeError)
\*   badutf8  invalid UTF-8  (json.loads raises UnicodeDecodeError)
\*   json     a JSON value
JsonLine(v) == [kind |-> "json", value |-> v]
BlankLine == [kind |-> "blank"]
GarbageLine == [kind |-> "garbage"]
BadUtf8Line == [kind |-> "badutf8"]
Lines == {BlankLine, GarbageLine, BadUtf8Line} \cup {JsonLine(v) : v \in Chunks}

\* What the transport does next while chat_stream runs: it delivers a line,
\* the body ends, or requests raises RequestException (connection refused,
\* timeout, non-2xx status from raise_for_status, failure reading the body).
LineEvent(l) == [ev |-> "line", line |-> l]
EofEvent == [ev |-> "eof"]
FailEvent == [ev |-> "fail"]
Events == {LineEvent(l) : l \in Lines} \cup {EofEvent, FailEvent}
\* the transport events of a stream of the given kind
StreamEvents(kind) ==
    {LineEvent(l) : l \in {BlankLine, GarbageLine, BadUtf8Line}}
    \cup {LineEvent(JsonLine(v)) :
             v \in IF kind = "initial" THEN InitialChunks ELSE FinalChunks}
    \cup {EofEvent, FailEvent}

\* chat_stream without its `except RequestException` clause
ChatStreamStepNoExcept(e) ==
    IF e.ev = "fail" THEN [t |-> "raise"]
    ELSE IF e.ev = "eof" THEN [t |-> "stop"]
    ELSE IF e.line.kind = "blank" THEN [t |-> "skip"]
    ELSE IF e.line.kind = "garbage" THEN [t |-> "skip"]
    ELSE IF e.line.kind = "badutf8" THEN [t |-> "raise"]
    ELSE [t |-> "yield", chunk |-> e.line.value, last |-> FALSE]

\* One transport event inside the generator body (lines 53-69):
\*   skip: nothing is yielded and the loop goes on;  yield: a fragment;
\*   stop: the generator returns;  raise: an exception leaves the generator.
ChatStreamStep(e) ==
    IF e.ev = "fail" THEN [t |-> "yield", chunk |-> TransportErrorFragment,
                           last |-> TRUE]
    ELSE IF e.ev = "eof" THEN [t |-> "stop"]
    ELSE IF e.line.kind = "blank" THEN [t |-> "skip"]
    ELSE IF e.line.kind = "garbage" THEN [t |-> "skip"]
    ELSE IF e.line.kind = "badutf8" THEN [t |-> "raise"]
    ELSE [t |-> "yield", chunk |-> e.line.value, last |-> FALSE]

\* ------------------------------------------------------------ messages
UserMsg(c) == [role |-> "user", content |-> c]
AssistantMsg(c) == [role |-> "assistant", content |-> c]
AssistantToolMsg(c, tcs) ==
    [role |-> "assistant", content |-> c, tool_calls |-> tcs]
\* lines 316-319 with the role "user"
ToolMsgAsUser(r) == [role |-> "user", content |-> r]
ToolMsg(r) == [role |-> "tool", content |-> r]

\* callbacks posted with root.after(0, ...)
CbStart == [fn |-> "start_assistant_message"]
\* (the text argument of add_to_current_message only reaches the display)
CbAdd(tag) == [fn |-> "add_to_current_message", tag |-> tag]
\* line 280 passing "" for response_text
CbToolsNoText(tcs, text) ==
    [fn |-> "handle_tool_calls", tool_calls |-> tcs, assistant_message |-> <<>>]
CbTools(tcs, text) ==
    [fn |-> "handle_tool_calls", tool_calls |-> tcs, assistant_message |-> text]
CbFinish == [fn |-> "finish_streaming"]

\* what the user can have typed in the input box
Inputs == {<<" ">>, <<"q">>, <<"q", " ">>}
\* model lists GET /api/tags can return
ModelLists == {<<>>, <<"llama2">>}

\* --------------------------------------------------------------- state
VARIABLES
    messages,       \* self.messages
    current_model,  \* self.current_model
    model_var,      \* self.model_var (the combobox selection)
    is_streaming,   \* self.is_streaming
    tools,          \* self.tool_registry.tools, in insertion order
    after_queue,    \* callbacks posted with root.after(0, ...), FIFO
    fg,             \* the foreground handler that is running, if any
    dialog,         \* the modal message box that is open, or "none"
    threads,        \* the live worker threads
    model_values,   \* self.model_combo['values']
    saved,          \* the files of the history directory
    turns,          \* accepted submissions so far
    turn,           \* history of the current turn (see NewTurn)
    response,       \* client specification: the HTTP response consumed
    gen,            \* client specification: the chat_stream generator
    reg_call,       \* registry specification: the last call and its outcome
    disk            \* history specification: the file save_chat wrote

vars == <<messages, current_model, model_var, is_streaming, tools,
          after_queue, fg, dialog, threads, model_values, saved, turns, turn,
          response, gen, reg_call, disk>>
appvars == <<messages, current_model, model_var, is_streaming, tools,
             after_queue, fg, dialog, threads, model_values, saved, turns, turn>>
clientvars == <<response, gen, reg_call, disk>>

\* no file has been written
NoFile == [written |-> FALSE, loaded |-> FALSE]

\* The history kept for one turn: the stream requests issued, how each
\* stream ended and what it carried (see Summary), the registry calls made,
\* the messages appended to self.messages and the save attempts, in order.
NoStream == [end |-> "none", text |-> <<>>, calls |-> <<>>]
NewTurn(user_msg) ==
    [requests |-> <<>>, initial |-> NoStream, final |-> NoStream,
     executed |-> <<>>, appended |-> <<user_msg>>, saves |-> 0]
NoTurn ==
    [requests |-> <<>>, initial |-> NoStream, final |-> NoStream,
     executed |-> <<>>, appended |-> <<>>, saves |-> 0]

\* What a stream carried, from the fragments the orchestrator was handed:
\* the content deltas of all fragments in arrival order, joined, and the
\* tool calls of all fragments in arrival order (an error fragment carries
\* neither: its "message" is the error text).
RECURSIVE ConcatDeltas(_)
ConcatDeltas(frags) ==
    IF frags = <<>> THEN <<>>
    ELSE LET f == Head(frags)
         IN  (IF /\ "error" \notin DOMAIN f
                 /\ "message" \in DOMAIN f
                 /\ "content" \in DOMAIN f.message
              THEN f.message.content ELSE <<>>)
             \o ConcatDeltas(Tail(frags))
RECURSIVE AllCalls(_)
AllCalls(frags) ==
    IF frags = <<>> THEN <<>>
    ELSE LET f == Head(frags)
         IN  (IF /\ "error" \notin DOMAIN f
                 /\ "message" \in DOMAIN f
                 /\ "tool_calls" \in DOMAIN f.message
              THEN f.message.tool_calls ELSE <<>>)
             \o AllCalls(Tail(frags))
Summary(frags, end) ==
    [end |-> end, text |-> ConcatDeltas(frags), calls |-> AllCalls(frags)]

FgIdle == [pc |-> "idle"]
Thread(kind) ==
    [kind |-> kind, pc |-> "start", response_text |-> <<>>, tool_calls |-> <<>>,
     frags |-> <<>>]
Remove(seq, i) == SubSeq(seq, 1, i - 1) \o SubSeq(seq, i + 1, Len(seq))

\* ------------------------------------------- OllamaChatApp.send_message
\* send_message without the check of line 216
SendBusyNever(streaming) == FALSE

\* line 216: the busy guard
SendBusy(streaming) == streaming

\* lines 209-210: the model the submission uses
SendModel(cur, var) == IF Falsy(cur) THEN var ELSE cur

\* send_message, lines 202-235
\* MaxTurns caps the turns begun from Idle (a submission made while a turn
\* is in flight is decided by the busy guard alone).
SendMessage(input) ==
    /\ fg = FgIdle
    /\ dialog = "none"
    /\ LET message == Strip(input)
           model == SendModel(current_model, model_var)
       IN  IF message = <<>>
           THEN UNCHANGED vars
           ELSE IF Falsy(model)
           THEN /\ current_model' = model
                /\ dialog' = "No Model"
                /\ UNCHANGED <<messages, model_var, is_streaming, tools,
                               after_queue, fg, threads, model_values, saved,
                               turns, turn, clientvars>>
           ELSE IF SendBusy(is_streaming)
           THEN /\ current_model' = model
                /\ dialog' = "Please Wait"
                /\ UNCHANGED <<messages, model_var, is_streaming, tools,
                               after_queue, fg, threads, model_values, saved,
                               turns, turn, clientvars>>
           ELSE /\ (turns < MaxTurns \/ is_streaming)
                /\ current_model' = model
                /\ messages' = Append(messages, UserMsg(message))
                /\ is_streaming' = TRUE
                /\ threads' = Append(threads, Thread("initial"))
                /\ turns' = turns + 1
                /\ turn' = NewTurn(UserMsg(message))
                /\ UNCHANGED <<model_var, tools, after_queue, fg, dialog,
                               model_values, saved, clientvars>>

\* the user closes the message box send_message opened
DismissDialog ==
    /\ dialog # "none"
    /\ dialog' = "none"
    /\ UNCHANGED <<messages, current_model, model_var, is_streaming, tools,
                   after_queue, fg, threads, model_values, saved, turns, turn,
                   clientvars>>

\* ------------------------------- stream_response / stream_final_response
\* `response_text = content + response_text`
AccumulateContentReversed(text, chunk) ==
    IF /\ "message" \in DOMAIN chunk
       /\ "content" \in DOMAIN chunk.message
       /\ chunk.message.content # <<>>
    THEN chunk.message.content \o text
    ELSE text

\* lines 265-268 and 341-345: a non-empty content delta is accumulated
AccumulateContent(text, chunk) ==
    IF /\ "message" \in DOMAIN chunk
       /\ "content" \in DOMAIN chunk.message
       /\ chunk.message.content # <<>>
    THEN text \o chunk.message.content
    ELSE text

\* `tool_calls = msg["tool_calls"] + tool_calls`
AccumulateToolCallsReversed(tcs, chunk) ==
    IF /\ "message" \in DOMAIN chunk
       /\ "tool_calls" \in DOMAIN chunk.message
       /\ chunk.message.tool_calls # <<>>
    THEN chunk.message.tool_calls \o tcs
    ELSE tcs

\* lines 271-272: tool calls are accumulated (initial stream only)
AccumulateToolCalls(tcs, chunk) ==
    IF /\ "message" \in DOMAIN chunk
       /\ "tool_calls" \in DOMAIN chunk.message
       /\ chunk.message.tool_calls # <<>>
    THEN tcs \o chunk.message.tool_calls
    ELSE tcs

\* stream_final_response accumulating tool calls as stream_response does
ReadsToolCallsAlways(kind) == TRUE

\* lines 270-272 exist in stream_response only: stream_final_response
\* never reads message.tool_calls
ReadsToolCalls(kind) == kind = "initial"

\* the display callback a chunk's content delta posts (lines 268, 345)
ContentPosts(chunk) ==
    IF /\ "message" \in DOMAIN chunk
       /\ "content" \in DOMAIN chunk.message
       /\ chunk.message.content # <<>>
    THEN <<CbAdd("assistant")>>
    ELSE <<>>

\* chunk.get("error") is truthy (lines 255, 336)
IsErrorChunk(chunk) == "error" \in DOMAIN chunk
\* the loops without the check of lines 275-276 and 347-348
IsDoneNever(chunk) == FALSE

\* chunk.get("done", False) (lines 275, 347)
IsDone(chunk) == Get(chunk, "done", FALSE)

\* the result of next() ends the for loop of the worker
EndsLoop(r) ==
    \/ r.t \in {"stop", "raise"}
    \/ /\ r.t = "yield"
       /\ (~IsObject(r.chunk) \/ IsErrorChunk(r.chunk) \/ IsDone(r.chunk))

\* the turn history once a stream of the given kind has ended
Ended(kind, frags, end) ==
    IF kind = "initial"
    THEN [turn EXCEPT !.initial = Summary(frags, end)]
    ELSE [turn EXCEPT !.final = Summary(frags, end)]

\* lines 239-254 and 326-335: the worker starts and issues the stream request
\* with the model, the history and the tool definitions it reads at that time
StreamOpen(i) ==
    /\ i \in 1..Len(threads)
    /\ threads[i].pc = "start"
    /\ threads' = [threads EXCEPT ![i].pc = "stream"]
    /\ after_queue' = Append(after_queue,
           IF threads[i].kind = "initial" THEN CbStart
           ELSE CbAdd("assistant"))
    /\ turn' = [turn EXCEPT !.requests = Append(@,
           [kind |-> threads[i].kind, model |-> current_model,
            messages |-> messages, tools |-> get_tool_definitions(tools)])]
    /\ UNCHANGED <<messages, current_model, model_var, is_streaming, tools,
                   fg, dialog, model_values, saved, turns, clientvars>>

\* lines 287-290 and 356-359: except Exception
WorkerException(i) ==
    /\ after_queue' = after_queue \o <<CbAdd("error"), CbFinish>>
    /\ threads' = Remove(threads, i)

\* one iteration of the for loop over chat_stream (lines 250-276, 331-348):
\* next() runs the generator over skipped lines up to the transport event e
StreamIterate(i, e) ==
    /\ i \in 1..Len(threads)
    /\ threads[i].pc = "stream"
    /\ e \in StreamEvents(threads[i].kind)
    /\ LET th == threads[i]
           r == ChatStreamStep(e)
           frags == IF r.t = "yield" THEN Append(th.frags, r.chunk) ELSE th.frags
       IN  /\ r.t # "skip"
           /\ (Len(th.frags) < MaxFrags \/ EndsLoop(r))
           /\ IF r.t = "stop"
              THEN /\ threads' = [threads EXCEPT ![i].pc = "after"]
                   /\ turn' = Ended(th.kind, frags, "eof")
                   /\ UNCHANGED after_queue
              ELSE IF r.t = "raise" \/ ~IsObject(r.chunk)
              THEN /\ WorkerException(i)
                   /\ turn' = Ended(th.kind, frags, "raise")
              ELSE IF IsErrorChunk(r.chunk)
              THEN /\ after_queue' = Append(after_queue, CbAdd("error"))
                   /\ threads' = [threads EXCEPT ![i] =
                        [@ EXCEPT !.pc = "after", !.frags = frags]]
                   /\ turn' = Ended(th.kind, frags, "error")
              ELSE /\ after_queue' = after_queue \o ContentPosts(r.chunk)
                   /\ threads' = [threads EXCEPT ![i] =
                        [@ EXCEPT
                           !.response_text = AccumulateContent(@, r.chunk),
                           !.tool_calls = IF ReadsToolCalls(th.kind)
                                          THEN AccumulateToolCalls(@, r.chunk)
                                          ELSE @,
                           !.frags = frags,
                           !.pc = IF IsDone(r.chunk) THEN "after" ELSE "stream"]]
                   /\ turn' = IF IsDone(r.chunk)
                              THEN Ended(th.kind, frags, "done")
                              ELSE turn
    /\ UNCHANGED <<messages, current_model, model_var, is_streaming, tools,
                   fg, dialog, model_values, saved, turns, clientvars>>

\* the workers without lines 283-284 and 351-352
FinalMessagesNone(text) == <<>>

\* lines 283-284 and 351-352 without the `if response_text:`
FinalMessagesAlways(text) == <<AssistantMsg(text)>>

\* lines 283-284 and 351-352: the assistant message the worker appends
FinalMessages(text) ==
    IF text # <<>> THEN <<AssistantMsg(text)>> ELSE <<>>

\* line 279: `if tool_calls` (the follow-up worker has accumulated none)
HasToolCalls(th) == th.tool_calls # <<>>

\* line 280 with the finish_streaming of line 285 outside the else
FinishPostsBoth(th) ==
    IF HasToolCalls(th)
    THEN <<CbTools(th.tool_calls, th.response_text), CbFinish>>
    ELSE <<CbFinish>>

\* lines 280 and 285 (354): the callback the worker posts last
FinishPosts(th) ==
    IF HasToolCalls(th)
    THEN <<CbTools(th.tool_calls, th.response_text)>>
    ELSE <<CbFinish>>

\* lines 278-285 and 350-354: after the loop
StreamFinish(i) ==
    /\ i \in 1..Len(threads)
    /\ threads[i].pc = "after"
    /\ LET th == threads[i]
       IN  /\ IF HasToolCalls(th)
              THEN UNCHANGED <<messages, turn>>
              ELSE /\ messages' = messages \o FinalMessages(th.response_text)
                   /\ turn' = [turn EXCEPT
                         !.appended = @ \o FinalMessages(th.response_text)]
           /\ after_queue' = after_queue \o FinishPosts(th)
    /\ threads' = Remove(threads, i)
    /\ UNCHANGED <<current_model, model_var, is_streaming, tools, fg, dialog,
                   model_values, saved, turns, clientvars>>

\* ------------------------------------------------------------- json
\* A JSON text is a sequence of tokens: the punctuation { } [ ] , : and the
\* literals null, a string, a number.
Tok(t) == [t |-> t]
Str(v) == [t |-> "str", v |-> v]
Num(v) == [t |-> "num", v |-> v]

RECURSIVE JoinComma(_)
JoinComma(parts) ==
    IF parts = <<>> THEN <<>>
    ELSE IF Len(parts) = 1 THEN parts[1]
    ELSE parts[1] \o <<Tok(",")>> \o JoinComma(Tail(parts))

\* json.dump of a dict given as its (key, dumped value) pairs, and of a list
\* given as its dumped items
DumpObject(pairs) ==
    <<Tok("{")>>
    \o JoinComma([i \in 1..Len(pairs) |->
                    <<Str(pairs[i].k), Tok(":")>> \o pairs[i].v])
    \o <<Tok("}")>>
DumpArray(items) == <<Tok("[")>> \o JoinComma(items) \o <<Tok("]")>>

\* json.dump of the values a history holds
DumpArguments(a) ==
    IF "scalar" \in DOMAIN a THEN <<Num(a.scalar)>>
    ELSE DumpObject(IF "limit" \in DOMAIN a
                    THEN <<[k |-> "limit", v |-> <<Str(a.limit)>>]>>
                    ELSE <<>>)
DumpFunctionInfo(f) ==
    IF IsNull(f) THEN <<Tok("null")>>
    ELSE DumpObject(<<[k |-> "name", v |-> <<Str(f.name)>>],
                      [k |-> "arguments", v |-> DumpArguments(f.arguments)]>>)
DumpToolCall(tc) ==
    DumpObject(<<[k |-> "function", v |-> DumpFunctionInfo(tc.function)]>>)
DumpMessage(m) ==
    DumpObject(
        <<[k |-> "role", v |-> <<Str(m.role)>>],
          [k |-> "content", v |-> <<Str(m.content)>>]>>
        \o IF "tool_calls" \in DOMAIN m
           THEN <<[k |-> "tool_calls",
                   v |-> DumpArray([i \in 1..Len(m.tool_calls) |->
                                      DumpToolCall(m.tool_calls[i])])]>>
           ELSE <<>>)

\* json.load: objects become dicts (the last of equal keys wins), arrays
\* lists, null None, strings and numbers themselves.  ParseValue reads the
\* value that starts at token i and gives it with the position after it.
RECURSIVE ParseValue(_, _)
RECURSIVE ParseElements(_, _, _)
RECURSIVE ParseMembers(_, _, _)
ParseValue(toks, i) ==
    LET tok == toks[i]
    IN  IF tok.t = "str" THEN [v |-> tok.v, i |-> i + 1]
        ELSE IF tok.t = "num" THEN [v |-> [scalar |-> tok.v], i |-> i + 1]
        ELSE IF tok.t = "null" THEN [v |-> [null |-> TRUE], i |-> i + 1]
        ELSE IF tok.t = "[" THEN ParseElements(toks, i + 1, <<>>)
        ELSE ParseMembers(toks, i + 1, EmptyDict)
ParseElements(toks, i, acc) ==
    IF toks[i].t = "]" THEN [v |-> acc, i |-> i + 1]
    ELSE IF toks[i].t = "," THEN ParseElements(toks, i + 1, acc)
    ELSE LET r == ParseValue(toks, i)
         IN  ParseElements(toks, r.i, Append(acc, r.v))
ParseMembers(toks, i, acc) ==
    IF toks[i].t = "}" THEN [v |-> acc, i |-> i + 1]
    ELSE IF toks[i].t = "," THEN ParseMembers(toks, i + 1, acc)
    ELSE LET r == ParseValue(toks, i + 2)
         IN  ParseMembers(toks, r.i, (toks[i].v :> r.v) @@ acc)
json_load(toks) == ParseValue(toks, 1).v

\* ------------------------------------------------- ChatHistory.save_chat
\* lines 33-40: json.dump of {"model", "timestamp", "messages"}
json_dump(msgs, model) ==
    DumpObject(<<[k |-> "model", v |-> <<Str(model)>>],
                 [k |-> "timestamp", v |-> <<Str("<timestamp>")>>],
                 [k |-> "messages",
                  v |-> DumpArray([i \in 1..Len(msgs) |-> DumpMessage(msgs[i])])]>>)

\* A file of the history directory.  In the application specification a
\* file stands for the data json.load returns from it, taken to be the data
\* of lines 33-37 that save_chat dumped (the timestamp, which nothing reads
\* back, left out); the history specification below writes the text of the
\* file and parses it.
Snapshot(msgs, model) == [model |-> model, messages |-> msgs]

\* The history directories a save attempt can leave.  The write can fail
\* (OSError; AttributeError on model.replace when the model is None) or add
\* a file; the directory holds at most MaxSaved files.
SaveOutcomes(store, msgs, model) ==
    {store}
    \cup (IF model = None \/ Cardinality(store \cup {Snapshot(msgs, model)}) > MaxSaved
          THEN {}
          ELSE {store \cup {Snapshot(msgs, model)}})

\* ---------------------------------------------- foreground callbacks
NextCallback(fn) ==
    /\ fg = FgIdle
    /\ after_queue # <<>>
    /\ Head(after_queue).fn = fn

\* start_assistant_message and add_to_current_message only write to the
\* chat display widget
StartAssistantMessage ==
    /\ NextCallback("start_assistant_message")
    /\ after_queue' = Tail(after_queue)
    /\ UNCHANGED <<messages, current_model, model_var, is_streaming, tools,
                   fg, dialog, threads, model_values, saved, turns, turn,
                   clientvars>>

AddToCurrentMessage ==
    /\ NextCallback("add_to_current_message")
    /\ after_queue' = Tail(after_queue)
    /\ UNCHANGED <<messages, current_model, model_var, is_streaming, tools,
                   fg, dialog, threads, model_values, saved, turns, turn,
                   clientvars>>

\* handle_tool_calls, lines 294-299: the assistant message with its calls
HandleToolCalls ==
    /\ NextCallback("handle_tool_calls")
    /\ LET cb == Head(after_queue)
           msg == AssistantToolMsg(cb.assistant_message, cb.tool_calls)
       IN  /\ messages' = Append(messages, msg)
           /\ turn' = [turn EXCEPT !.appended = Append(@, msg)]
           /\ fg' = [pc |-> "dispatch", tool_calls |-> cb.tool_calls, i |-> 1]
    /\ after_queue' = Tail(after_queue)
    /\ UNCHANGED <<current_model, model_var, is_streaming, tools, dialog,
                   threads, model_values, saved, turns, clientvars>>

\* lines 303-305: what is read from one tool_call
FunctionInfo(tool_call) == Get(tool_call, "function", EmptyDict)
ToolName(tool_call) == Get(FunctionInfo(tool_call), "name", "unknown")
ToolArguments(tool_call) == Get(FunctionInfo(tool_call), "arguments", EmptyDict)
\* execute_tool raising (KeyError) for a name that is not registered
CallRaisesUnknown(tool_call) ==
    \/ IsNull(FunctionInfo(tool_call))
    \/ ToolName(tool_call) \notin ToolNames(tools)
    \/ ToolArguments(tool_call) # EmptyDict

\* function_info.get raises AttributeError when "function" is null
CallRaises(tool_call) == IsNull(FunctionInfo(tool_call))

\* handle_tool_calls, one iteration of the loop of lines 302-319.  An
\* exception leaves the handler: Tk reports it and the main loop goes on.
DispatchTool ==
    /\ fg.pc = "dispatch"
    /\ fg.i <= Len(fg.tool_calls)
    /\ LET tool_call == fg.tool_calls[fg.i]
       IN  IF CallRaises(tool_call)
           THEN /\ fg' = FgIdle
                /\ UNCHANGED <<messages, turn>>
           ELSE LET result == execute_tool(tools, ToolName(tool_call),
                                           ToolArguments(tool_call)).value
                IN  /\ messages' = Append(messages, ToolMsg(result))
                    /\ turn' = [turn EXCEPT
                          !.appended = Append(@, ToolMsg(result)),
                          !.executed = Append(@,
                              [name |-> ToolName(tool_call),
                               arguments |-> ToolArguments(tool_call),
                               result |-> result])]
                    /\ fg' = [fg EXCEPT !.i = @ + 1]
    /\ UNCHANGED <<current_model, model_var, is_streaming, tools, after_queue,
                   dialog, threads, model_values, saved, turns, clientvars>>

\* handle_tool_calls, line 322: the worker of the follow-up stream
StartFinalThread ==
    /\ fg.pc = "dispatch"
    /\ fg.i > Len(fg.tool_calls)
    /\ threads' = Append(threads, Thread("final"))
    /\ fg' = FgIdle
    /\ UNCHANGED <<messages, current_model, model_var, is_streaming, tools,
                   after_queue, dialog, model_values, saved, turns, turn,
                   clientvars>>

\* finish_streaming, lines 389-401
FinishStreaming ==
    /\ NextCallback("finish_streaming")
    /\ after_queue' = Tail(after_queue)
    /\ is_streaming' = FALSE
    /\ IF Len(messages) > 0
       THEN /\ saved' \in SaveOutcomes(saved, messages, current_model)
            /\ turn' = [turn EXCEPT !.saves = @ + 1]
       ELSE UNCHANGED <<saved, turn>>
    /\ UNCHANGED <<messages, current_model, model_var, tools, fg, dialog,
                   threads, model_values, turns, clientvars>>

\* ------------------------------------------------ other user actions
\* new_chat, lines 403-422; `answer` is the reply to the askyesno box
NewChat(answer) ==
    /\ fg = FgIdle
    /\ dialog = "none"
    /\ IF messages # <<>> /\ answer
       THEN /\ saved' \in SaveOutcomes(saved, messages, current_model)
            /\ messages' = <<>>
       ELSE UNCHANGED <<messages, saved>>
    /\ UNCHANGED <<current_model, model_var, is_streaming, tools, after_queue,
                   fg, dialog, threads, model_values, turns, turn, clientvars>>

\* ChatHistory.load_chat: json.load of the text of a file
load_chat(text) == json_load(text)

\* load_selected reading a key that save_chat does not write
LoadedMessagesWrongKey(data) == Get(data, "message", <<>>)

\* line 477: data.get('messages', [])
LoadedMessages(data) == Get(data, "messages", <<>>)

\* show_history.load_selected, lines 467-506
LoadSelected(snap) ==
    /\ fg = FgIdle
    /\ dialog = "none"
    /\ snap \in saved
    /\ UNCHANGED <<is_streaming, tools, after_queue, fg, dialog, threads,
                   model_values, saved, turns, turn, clientvars>>
    /\ LET data == snap
           model == Get(data, "model", current_model)
       IN  /\ messages' = LoadedMessages(data)
           /\ current_model' = model
           /\ model_var' = IF \E k \in 1..Len(model_values) : model_values[k] = model
                           THEN model ELSE model_var

\* refresh_models, lines 171-188; `models` is what list_models returns
RefreshModels(models) ==
    /\ fg = FgIdle
    /\ dialog = "none"
    /\ IF models # <<>>
       THEN /\ model_values' = models
            /\ model_var' = models[1]
            /\ current_model' = models[1]
       ELSE UNCHANGED <<model_values, model_var, current_model>>
    /\ UNCHANGED <<messages, is_streaming, tools, after_queue, fg, dialog,
                   threads, saved, turns, turn, clientvars>>

\* ------------------------------------------------------ specification
\* OllamaChatApp.__init__, lines 74-91: check_ollama_connection refreshes
\* the models when the server answers
Init ==
    /\ messages = <<>>
    /\ is_streaming = FALSE
    /\ tools = DefaultTools
    /\ after_queue = <<>>
    /\ fg = FgIdle
    /\ dialog = "none"
    /\ threads = <<>>
    /\ saved = {}
    /\ turns = 0
    /\ turn = NoTurn
    /\ \E models \in ModelLists :
          /\ model_values = models
          /\ model_var = IF models # <<>> THEN models[1] ELSE ""
          /\ current_model = IF models # <<>> THEN models[1] ELSE None
    /\ response = <<>>
    /\ gen = [pc |-> "none"]
    /\ reg_call = [op |-> "none"]
    /\ disk = NoFile

Next ==
    \/ \E input \in Inputs : SendMessage(input)
    \/ DismissDialog
    \/ \E i \in 1..Len(threads) : StreamOpen(i)
    \/ \E i \in 1..Len(threads) : \E e \in Events : StreamIterate(i, e)
    \/ \E i \in 1..Len(threads) : StreamFinish(i)
    \/ StartAssistantMessage
    \/ AddToCurrentMessage
    \/ HandleToolCalls
    \/ DispatchTool
    \/ StartFinalThread
    \/ FinishStreaming
    \/ \E answer \in BOOLEAN : NewChat(answer)
    \/ \E snap \in saved : LoadSelected(snap)
    \/ \E models \in ModelLists : RefreshModels(models)

Spec == Init /\ [][Next]_vars

\* ------------------------------------- chat_stream on a whole response
\* A consumer iterates chat_stream to its end over one HTTP response:
\* `lines` are the body lines delivered, `end` tells whether the body then
\* ends or requests raises RequestException (with no line delivered this is
\* a refused connection, a timeout or a non-2xx status).
ClientLines ==
    {BlankLine, GarbageLine, BadUtf8Line,
     JsonLine(ContentChunk(<<"a">>)), JsonLine(DoneTextChunk)}

RECURSIVE SeqsUpTo(_, _)
SeqsUpTo(S, n) ==
    IF n = 0 THEN {<<>>}
    ELSE LET shorter == SeqsUpTo(S, n - 1)
         IN  shorter \cup {Append(q, x) : q \in {r \in shorter : Len(r) = n - 1}, x \in S}

Responses ==
    [lines : SeqsUpTo(ClientLines, MaxLines), end : {"eof", "fail"}]

\* the transport event at position gen.pos of the response
ClientEvent ==
    IF gen.pos < Len(response.lines) THEN LineEvent(response.lines[gen.pos + 1])
    ELSE IF response.end = "fail" THEN FailEvent
    ELSE EofEvent

\* the generator runs over one transport event
GenStep ==
    /\ gen.pc = "running"
    /\ LET r == ChatStreamStep(ClientEvent)
       IN  gen' =
             IF r.t = "skip" THEN [gen EXCEPT !.pos = @ + 1]
             ELSE IF r.t = "stop" THEN [gen EXCEPT !.pc = "returned"]
             ELSE IF r.t = "raise" THEN [gen EXCEPT !.pc = "raised"]
             ELSE [gen EXCEPT !.pos = @ + 1,
                              !.yielded = Append(@, r.chunk),
                              !.pc = IF r.last THEN "returned" ELSE "running"]
    /\ UNCHANGED <<response, reg_call, disk, appvars>>

InitClient ==
    /\ messages = <<>>
    /\ is_streaming = FALSE
    /\ tools = DefaultTools
    /\ after_queue = <<>>
    /\ fg = FgIdle
    /\ dialog = "none"
    /\ threads = <<>>
    /\ saved = {}
    /\ turns = 0
    /\ turn = NoTurn
    /\ model_values = <<>>
    /\ model_var = ""
    /\ current_model = None
    /\ response \in Responses
    /\ gen = [pc |-> "running", pos |-> 0, yielded |-> <<>>]
    /\ reg_call = [op |-> "none"]
    /\ disk = NoFile

NextClient == GenStep

SpecClient == InitClient /\ [][NextClient]_vars

\* ------------------------------------------- the registry on its own
\* what register_tool, get_tool_definitions and execute_tool are called with
RegNames == {TOOL_NAME, "other", "nope"}
Descriptions == {"top 10 cryptocurrencies", "d2"}
ArgValues == {EmptyDict, [limit |-> "5"], ArgsNoMapping}

\* the definitions returned since the last registration, if any
NoDefs == [known |-> FALSE]

\* a call of register_tool from outside the class
RegisterTool(name, description, function) ==
    LET r == register_tool(tools, name, description, function, <<>>)
    IN  /\ Len(tools) < MaxTools \/ name \in ToolNames(tools)
        /\ tools' = r.tools
        /\ reg_call' = [op |-> "register", name |-> name, t |-> r.t,
                        before |-> tools, defs |-> NoDefs]
        /\ UNCHANGED <<messages, current_model, model_var, is_streaming,
                       after_queue, fg, dialog, threads, model_values, saved,
                       turns, turn, response, gen, disk>>

\* a call of get_tool_definitions
GetToolDefinitions ==
    /\ reg_call' = [op |-> "definitions", t |-> "return",
                    value |-> get_tool_definitions(tools),
                    before |-> tools, earlier |-> reg_call.defs,
                    defs |-> [known |-> TRUE,
                              value |-> get_tool_definitions(tools)]]
    /\ UNCHANGED <<appvars, response, gen, disk>>

\* a call of execute_tool
ExecuteTool(name, arguments) ==
    LET r == execute_tool(tools, name, arguments)
    IN  /\ reg_call' = r @@
                       [op |-> "execute", name |-> name,
                        arguments |-> arguments, before |-> tools,
                        defs |-> reg_call.defs]
        /\ UNCHANGED <<appvars, response, gen, disk>>

\* ToolRegistry.__init__, lines 14-16
InitRegistry ==
    /\ messages = <<>>
    /\ is_streaming = FALSE
    /\ tools = DefaultTools
    /\ after_queue = <<>>
    /\ fg = FgIdle
    /\ dialog = "none"
    /\ threads = <<>>
    /\ saved = {}
    /\ turns = 0
    /\ turn = NoTurn
    /\ model_values = <<>>
    /\ model_var = ""
    /\ current_model = None
    /\ response = <<>>
    /\ gen = [pc |-> "none"]
    /\ reg_call = [op |-> "init", defs |-> NoDefs]
    /\ disk = NoFile

NextRegistry ==
    \/ \E name \in RegNames \ {"nope"} : \E description \in Descriptions :
          \E function \in Handlers : RegisterTool(name, description, function)
    \/ GetToolDefinitions
    \/ \E name \in RegNames : \E arguments \in ArgValues :
          ExecuteTool(name, arguments)

SpecRegistry == InitRegistry /\ [][NextRegistry]_vars

\* ------------------------------------- the chat history on its own
\* the messages the application appends to self.messages
HistoryMessages ==
    {UserMsg(<<"q">>), AssistantMsg(<<"a">>),
     AssistantToolMsg(<<>>, <<TcArgs, TcNullFn>>), ToolMsg(ExecErrorPayload)}
HistoryModels == {None, "llama2"}

\* self.messages.append(...), lines 231, 284, 298, 316 and 352
AppendMessage(m) ==
    /\ Len(messages) < MaxHistory
    /\ messages' = Append(messages, m)
    /\ disk' = [disk EXCEPT !.loaded = FALSE]
    /\ UNCHANGED <<current_model, model_var, is_streaming, tools, after_queue,
                   fg, dialog, threads, model_values, saved, turns, turn,
                   response, gen, reg_call>>

\* line 415: self.messages = []
ClearMessages ==
    /\ messages' = <<>>
    /\ disk' = [disk EXCEPT !.loaded = FALSE]
    /\ UNCHANGED <<current_model, model_var, is_streaming, tools, after_queue,
                   fg, dialog, threads, model_values, saved, turns, turn,
                   response, gen, reg_call>>

\* ChatHistory.save_chat(self.messages, self.current_model), lines 28-42.
\* model.replace raises AttributeError when the model is None and open can
\* raise OSError (`ok` is FALSE); nothing is written then.  `disk` keeps the
\* text written and, as history, what save_chat was called with.
SaveChat(ok) ==
    /\ disk' = IF current_model # None /\ ok
               THEN [written |-> TRUE, loaded |-> FALSE,
                     text |-> json_dump(messages, current_model),
                     messages |-> messages, model |-> current_model]
               ELSE [disk EXCEPT !.loaded = FALSE]
    /\ UNCHANGED <<appvars, response, gen, reg_call>>

\* load_selected on the file, lines 476-478
LoadFile ==
    /\ disk.written
    /\ LET data == load_chat(disk.text)
       IN  /\ messages' = LoadedMessages(data)
           /\ current_model' = Get(data, "model", current_model)
    /\ disk' = [disk EXCEPT !.loaded = TRUE]
    /\ UNCHANGED <<model_var, is_streaming, tools, after_queue, fg, dialog,
                   threads, model_values, saved, turns, turn, response, gen,
                   reg_call>>

InitHistory ==
    /\ messages = <<>>
    /\ is_streaming = FALSE
    /\ tools = DefaultTools
    /\ after_queue = <<>>
    /\ fg = FgIdle
    /\ dialog = "none"
    /\ threads = <<>>
    /\ saved = {}
    /\ turns = 0
    /\ turn = NoTurn
    /\ model_values = <<>>
    /\ model_var = ""
    /\ current_model \in HistoryModels
    /\ response = <<>>
    /\ gen = [pc |-> "none"]
    /\ reg_call = [op |-> "none"]
    /\ disk = NoFile

NextHistory ==
    \/ \E m \in HistoryMessages : AppendMessage(m)
    \/ ClearMessages
    \/ \E ok \in BOOLEAN : SaveChat(ok)
    \/ LoadFile

SpecHistory == InitHistory /\ [][NextHistory]_vars

\* ============================================================ properties

\* the current turn has returned to Idle
TurnOver == turns > 0 /\ ~is_streaming /\ threads = <<>> /\ fg = FgIdle

\* a follow-up request has been opened in the current turn
FinalOpened == \E k \in 1..Len(turn.requests) : turn.requests[k].kind = "final"

\* the tool-result messages among msgs, in order
ToolMsgs(msgs) == SelectSeq(msgs, LAMBDA m : m.role = "tool")

\* the assistant messages among msgs, in order
AssistantMsgs(msgs) == SelectSeq(msgs, LAMBDA m : m.role = "assistant")

\* C1 as stated: when the initial stream ended with done and carried no tool
\* call, the turn appended after the user message exactly one assistant
\* message, whose content is the concatenation of the deltas in arrival
\* order, the empty concatenation included.
C1_AlwaysOneAssistantMessage ==
    (TurnOver /\ turn.initial.end = "done" /\ turn.initial.calls = <<>>)
        => Tail(turn.appended) = <<AssistantMsg(turn.initial.text)>>

\* C1: when the initial stream ended with done and carried no tool call, the
\* turn appended after the user message exactly one assistant message whose
\* content is the concatenation of the deltas in arrival order if that
\* concatenation is non-empty, and no message at all if it is empty.
C1_OneAssistantMessage ==
    (TurnOver /\ turn.initial.end = "done" /\ turn.initial.calls = <<>>)
        => Tail(turn.appended) =
             IF turn.initial.text # <<>>
             THEN <<AssistantMsg(turn.initial.text)>>
             ELSE <<>>

C1_Witness ==
    /\ TurnOver
    /\ turn.initial.end = "done"
    /\ turn.initial.calls = <<>>
    /\ turn.initial.text = <<"a", "b">>
    /\ messages = <<UserMsg(<<"q">>), AssistantMsg(<<"a", "b">>)>>

\* C2: the tool calls received in the initial stream are executed in the
\* order received, each call's result is appended as one tool message before
\* the next call is dispatched, and once the follow-up request has been
\* opened every received call has been executed and its result appended.
C2_DispatchInOrder ==
    LET calls == turn.initial.calls
        ex    == turn.executed
        tm    == ToolMsgs(turn.appended)
    IN  /\ Len(ex) <= Len(calls)
        /\ \A k \in 1..Len(ex) :
              /\ ex[k].name = ToolName(calls[k])
              /\ ex[k].arguments = ToolArguments(calls[k])
        /\ Len(tm) = Len(ex)
        /\ \A k \in 1..Len(ex) : tm[k] = ToolMsg(ex[k].result)
        /\ FinalOpened => (Len(calls) >= 1 /\ Len(ex) = Len(calls))

C2_Witness ==
    /\ FinalOpened
    /\ Len(turn.executed) = 2
    /\ turn.executed[1].name # turn.executed[2].name
    /\ Len(ToolMsgs(messages)) = 2

\* C3: a submission with non-empty text and a selected model made while a
\* turn is in progress is rejected: the history is unchanged, no request is
\* opened and no worker is started.
C3_BusyRejected ==
    [][(/\ is_streaming
        /\ ~Falsy(SendModel(current_model, model_var))
        /\ \E input \in Inputs : Strip(input) # <<>> /\ SendMessage(input))
       => (/\ messages' = messages
           /\ threads' = threads
           /\ turn' = turn
           /\ is_streaming')]_vars

C3_Witness ==
    /\ dialog = "Please Wait"
    /\ is_streaming
    /\ Len(threads) = 1
    /\ threads[1].pc = "stream"
    /\ messages = <<UserMsg(<<"q">>)>>

\* C4: at most one stream worker exists at any time, so the initial and the
\* follow-up stream are never consumed concurrently and no worker runs while
\* tools are dispatched, and the busy flag is set whenever a worker exists or
\* tools are being dispatched.
C4_OneStream ==
    /\ Len(threads) <= 1
    /\ ~(threads # <<>> /\ fg.pc = "dispatch")
    /\ (threads # <<>> \/ fg.pc = "dispatch") => is_streaming

C4_Witness ==
    /\ Len(threads) = 1
    /\ threads[1].kind = "final"
    /\ threads[1].pc = "stream"
    /\ threads[1].frags # <<>>
    /\ dialog = "Please Wait"

\* C5 as stated, on finished runs: when no worker exists, no callback is
\* queued and no handler is running, the busy flag is clear, whatever shape
\* the tool-call request had.
C5_ReturnsToIdle ==
    (threads = <<>> /\ after_queue = <<>> /\ fg = FgIdle) => ~is_streaming

\* C6 as stated: when the initial stream ended with an error fragment,
\* whatever fragments preceded it, no tool is dispatched, no tool message is
\* appended and no further request is opened.
C6_ErrorEndsTurn ==
    turn.initial.end = "error"
        => /\ fg.pc # "dispatch"
           /\ turn.executed = <<>>
           /\ ToolMsgs(turn.appended) = <<>>
           /\ Len(turn.requests) <= 1

\* C7: a turn opens at most two requests and exactly one when its initial
\* stream carried no tool call; only the tool calls of the initial stream are
\* executed, in one round, and tool calls delivered by the follow-up stream
\* are never dispatched.
C7_OneRound ==
    /\ Len(turn.requests) <= 2
    /\ (TurnOver /\ turn.initial.calls = <<>>) => Len(turn.requests) = 1
    /\ Len(turn.executed) <= Len(turn.initial.calls)
    /\ Len(SelectSeq(turn.appended, LAMBDA m : "tool_calls" \in DOMAIN m)) <= 1
    /\ turn.final.end # "none" => fg.pc # "dispatch"

C7_Witness ==
    /\ TurnOver
    /\ turn.final.end = "done"
    /\ turn.final.calls # <<>>
    /\ Len(turn.requests) = 2
    /\ Len(turn.executed) = 1

\* the call is well formed but its tool is not registered or its handler
\* fails
FailingCall(tool_call) ==
    /\ ~IsNull(FunctionInfo(tool_call))
    /\ \/ ToolName(tool_call) \notin ToolNames(tools)
       \/ ToolArguments(tool_call) # EmptyDict

\* C8: dispatching a call whose tool is not registered or whose handler fails
\* appends a tool message carrying an error payload and moves on to the next
\* call, and after the last call the follow-up worker is started.
C8_FailureIsAResult ==
    [][/\ (/\ fg.pc = "dispatch"
           /\ fg.i <= Len(fg.tool_calls)
           /\ FailingCall(fg.tool_calls[fg.i])
           /\ fg' # fg)
          => /\ Len(messages') = Len(messages) + 1
             /\ messages'[Len(messages')] \in
                  {ToolMsg(NotFoundPayload(ToolName(fg.tool_calls[fg.i]))),
                   ToolMsg(ExecErrorPayload)}
             /\ fg' = [fg EXCEPT !.i = @ + 1]
       /\ (/\ fg.pc = "dispatch"
           /\ fg.i > Len(fg.tool_calls)
           /\ fg' # fg)
          => /\ threads' = Append(threads, Thread("final"))
             /\ fg' = FgIdle]_vars

C8_Witness ==
    /\ FinalOpened
    /\ Len(turn.executed) = 2
    /\ turn.executed[1].result = NotFoundPayload("nope")
    /\ turn.executed[2].result = ExecErrorPayload
    /\ ToolMsgs(messages) =
         <<ToolMsg(NotFoundPayload("nope")), ToolMsg(ExecErrorPayload)>>

\* the values of the JSON lines of a response body, in order
RECURSIVE ValidValues(_)
ValidValues(lines) ==
    IF lines = <<>> THEN <<>>
    ELSE (IF Head(lines).kind = "json" THEN <<Head(lines).value>> ELSE <<>>)
         \o ValidValues(Tail(lines))

\* the line cannot be decoded
Undecodable(line) == line.kind \in {"garbage", "badutf8"}

\* C9 as stated: once the generator has ended, every valid line that follows
\* an undecodable line of the response has been yielded, at its place among
\* the fragments.
C9_MalformedSkipped ==
    gen.pc # "running"
        => \A j \in 1..Len(response.lines) :
              (/\ response.lines[j].kind = "json"
               /\ \E i \in 1..(j - 1) : Undecodable(response.lines[i]))
              => LET n == Len(ValidValues(SubSeq(response.lines, 1, j)))
                 IN  /\ Len(gen.yielded) >= n
                     /\ gen.yielded[n] = response.lines[j].value

\* C10: when the transport failed, the generator has returned without
\* raising, and what it yielded is the fragments of the valid lines received
\* before the failure followed by exactly one error fragment.
C10_FailureIsAFragment ==
    (/\ gen.pc # "running"
     /\ response.end = "fail"
     /\ gen.pos >= Len(response.lines))
        => /\ gen.pc = "returned"
           /\ gen.yielded =
                Append(ValidValues(response.lines), TransportErrorFragment)

C10_Witness ==
    /\ gen.pc = "returned"
    /\ response.end = "fail"
    /\ Len(response.lines) = MaxLines
    /\ \E i \in 1..Len(response.lines) : response.lines[i].kind = "garbage"
    /\ Len(gen.yielded) >= 2
    /\ gen.yielded[Len(gen.yielded)] = TransportErrorFragment

\* the tool-result messages of the calls executed in the current turn
ExecutedToolMsgs ==
    [k \in 1..Len(turn.executed) |-> ToolMsg(turn.executed[k].result)]

\* C11 as stated: the history of the initial request ends with the turn's
\* user message, and the history of the follow-up request is the history of
\* the initial request followed by the assistant tool-call message and all
\* tool-result messages, with the tool definitions of the initial request.
C11_RequestsCarryHistory ==
    \A k \in 1..Len(turn.requests) :
        LET r == turn.requests[k]
        IN  /\ r.kind = "initial"
               => /\ r.messages # <<>>
                  /\ r.messages[Len(r.messages)] = turn.appended[1]
            /\ r.kind = "final"
               => /\ r.messages =
                       turn.requests[1].messages
                       \o <<AssistantToolMsg(turn.initial.text,
                                             turn.initial.calls)>>
                       \o ExecutedToolMsgs
                  /\ r.tools = turn.requests[1].tools

\* a step of a background streaming worker
WorkerStep ==
    \E i \in 1..Len(threads) :
        \/ StreamOpen(i)
        \/ \E e \in Events : StreamIterate(i, e)
        \/ StreamFinish(i)

\* C12 as stated: no step executed by a background streaming worker appends
\* to or otherwise changes the message history.
C12_WorkersLeaveHistory ==
    [][WorkerStep => messages' = messages]_vars

\* the text of the input box is empty or whitespace only
IsBlank(input) == \A k \in 1..Len(input) : input[k] = " "

\* a submission with blank input or with no model selected
RejectedSubmission ==
    \E input \in Inputs :
        /\ IsBlank(input) \/ Falsy(SendModel(current_model, model_var))
        /\ SendMessage(input)

\* C13 as stated: a submission with blank input or with no model selected
\* changes neither the message history, nor the selected model, nor the busy
\* flag, and issues no stream request.
C13_RejectedNoMutation ==
    [][RejectedSubmission
       => /\ messages' = messages
          /\ current_model' = current_model
          /\ model_var' = model_var
          /\ is_streaming' = is_streaming
          /\ threads' = threads
          /\ turn' = turn]_vars

\* C13: a submission with blank input or with no model selected changes
\* neither the message history nor the busy flag nor the selection of the
\* model box, and issues no stream request; the current model stays unset,
\* but a current model of None is replaced by the empty string read from
\* the model box.
C13_RejectedUnchanged ==
    [][RejectedSubmission
       => /\ messages' = messages
          /\ model_var' = model_var
          /\ is_streaming' = is_streaming
          /\ threads' = threads
          /\ turn' = turn
          /\ \/ current_model' = current_model
             \/ /\ current_model = None
                /\ model_var = ""
                /\ current_model' = ""]_vars

C13_Witness ==
    /\ dialog = "No Model"
    /\ current_model = ""
    /\ model_var = ""
    /\ messages = <<>>
    /\ ~is_streaming
    /\ threads = <<>>
    /\ turn = NoTurn

\* C14 as stated: whenever a tool is being dispatched or has been executed in
\* the current turn, the initial stream has reported done and no worker is
\* consuming the initial stream any more.
C14_DispatchAfterDone ==
    (fg.pc = "dispatch" \/ turn.executed # <<>>)
        => /\ turn.initial.end = "done"
           /\ \A i \in 1..Len(threads) : threads[i].kind # "initial"

\* C15 as stated: every finish_streaming step makes one persistence attempt,
\* clears the busy flag whatever the outcome of the attempt, and leaves the
\* message history unchanged.
C15_FinishSavesOnce ==
    [][FinishStreaming
       => /\ turn'.saves = turn.saves + 1
          /\ ~is_streaming'
          /\ messages' = messages]_vars

\* C16 as stated: register_tool with a name that is already registered fails
\* with an error and leaves the registry as it was.
C16_DuplicateRejected ==
    (reg_call.op = "register" /\ reg_call.name \in ToolNames(reg_call.before))
        => /\ reg_call.t = "raise"
           /\ tools = reg_call.before

\* C17: execute_tool returns a text and never raises, whatever the name and
\* the arguments; for a name that is not registered the text is the not-found
\* payload, for a handler that fails (also on arguments that do not fit it)
\* it is the execution-error payload; the registry is unchanged by the call.
C17_ExecuteNeverRaises ==
    reg_call.op = "execute"
        => /\ reg_call.t = "return"
           /\ tools = reg_call.before
           /\ reg_call.name \notin ToolNames(tools)
                 => reg_call.value = NotFoundPayload(reg_call.name)
           /\ (/\ reg_call.name \in ToolNames(tools)
               /\ CallHandler(Lookup(tools, reg_call.name).function,
                              reg_call.arguments).t = "raise")
                 => reg_call.value = ExecErrorPayload

C17_Witness ==
    /\ reg_call.op = "execute"
    /\ reg_call.name = "other"
    /\ "other" \in ToolNames(tools)
    /\ Lookup(tools, "other").function = "echo"
    /\ reg_call.arguments = ArgsNoMapping
    /\ reg_call.value = ExecErrorPayload

\* C18: get_tool_definitions and execute_tool leave the registry unchanged;
\* get_tool_definitions returns one {name, description, parameters} per tool
\* in registration order, and the same sequence as every earlier call made
\* since the last registration.
C18_DefinitionsStable ==
    /\ reg_call.op \in {"definitions", "execute"} => tools = reg_call.before
    /\ reg_call.op = "definitions"
          => /\ Len(reg_call.value) = Len(tools)
             /\ \A i \in 1..Len(tools) :
                   reg_call.value[i].function =
                       [name |-> tools[i].name,
                        description |-> tools[i].description,
                        parameters |-> tools[i].parameters]
             /\ reg_call.earlier.known
                   => reg_call.value = reg_call.earlier.value

C18_Witness ==
    /\ reg_call.op = "definitions"
    /\ reg_call.earlier.known
    /\ Len(reg_call.value) = 2
    /\ reg_call.value[1].function.name = TOOL_NAME
    /\ reg_call.value[2].function.name = "other"

\* C19: loading a file of the history directory sets the message history to
\* the message sequence save_chat was given when it wrote the file, equal in
\* order and content (tool_calls fields included), and the current model to
\* the model it was given.
C19_RoundTrip ==
    disk.loaded
       => /\ messages = disk.messages
          /\ current_model = disk.model

C19_Witness ==
    /\ disk.loaded
    /\ messages = <<UserMsg(<<"q">>),
                    AssistantToolMsg(<<>>, <<TcArgs, TcNullFn>>),
                    ToolMsg(ExecErrorPayload)>>
    /\ current_model = "llama2"

\* the messages with a tool_calls field among msgs, in order
ToolCallMsgs(msgs) == SelectSeq(msgs, LAMBDA m : "tool_calls" \in DOMAIN m)

\* handle_tool_calls has been entered for the initial stream of the turn
HandlerEntered ==
    /\ \A k \in 1..Len(threads) : threads[k].kind # "initial"
    /\ \A k \in 1..Len(after_queue) : after_queue[k].fn # "handle_tool_calls"

\* C20: when the initial stream ended with done and carried at least one tool
\* call, the turn appends at most one message with a tool_calls field; once
\* handle_tool_calls has been entered it has appended exactly one, the
\* assistant message with the accumulated text (possibly empty) and all the
\* tool calls in arrival order, directly after the user message; and no tool
\* has been executed and no tool message appended before that.
C20_ToolCallMessageFirst ==
    (turn.initial.end = "done" /\ turn.initial.calls # <<>>)
        => LET msg == [role |-> "assistant", content |-> turn.initial.text,
                       tool_calls |-> turn.initial.calls]
           IN  /\ Len(ToolCallMsgs(turn.appended)) <= 1
               /\ HandlerEntered
                     => /\ ToolCallMsgs(turn.appended) = <<msg>>
                        /\ turn.appended[2] = msg
               /\ (turn.executed # <<>> \/ ToolMsgs(turn.appended) # <<>>)
                     => /\ HandlerEntered
                        /\ turn.appended[2] = msg
                        /\ ToolMsgs(SubSeq(turn.appended, 1, 2)) = <<>>

C20_Witness ==
    /\ turn.initial.end = "done"
    /\ turn.initial.text = <<"a", "b">>
    /\ turn.initial.calls = <<TcOk, TcUnknown>>
    /\ Len(turn.executed) = 1
    /\ fg.pc = "dispatch"
    /\ messages = <<UserMsg(<<"q">>),
                    AssistantToolMsg(<<"a", "b">>, <<TcOk, TcUnknown>>),
                    ToolMsg(HandlerResult)>>

\* the worker of the follow-up stream has ended
FinalWorkerGone ==
    \A k \in 1..Len(threads) : threads[k].kind # "final"

\* what the turn appended before its follow-up request was opened
BeforeFinal ==
    <<turn.appended[1],
      [role |-> "assistant", content |-> turn.initial.text,
       tool_calls |-> turn.initial.calls]>>
    \o ExecutedToolMsgs

\* C21 as stated: when the follow-up stream ended with done, the turn appended
\* after the tool-result messages exactly one assistant message without
\* tool_calls whose content is the concatenation of that stream's deltas in
\* arrival order, the empty concatenation included.
C21_AlwaysOneFinalMessage ==
    (turn.final.end = "done" /\ FinalWorkerGone)
        => turn.appended =
             BeforeFinal
             \o <<[role |-> "assistant", content |-> turn.final.text]>>

\* C21: when the follow-up stream ended with done, the turn appended after
\* the tool-result messages exactly one assistant message without tool_calls
\* whose content is the concatenation of that stream's deltas in arrival
\* order if that concatenation is non-empty, and no message if it is empty.
C21_OneFinalMessage ==
    (turn.final.end = "done" /\ FinalWorkerGone)
        => turn.appended =
             BeforeFinal
             \o (IF turn.final.text # <<>>
                 THEN <<[role |-> "assistant", content |-> turn.final.text]>>
                 ELSE <<>>)

C21_Witness ==
    /\ TurnOver
    /\ turn.final.end = "done"
    /\ turn.final.text = <<"a", "b">>
    /\ messages = <<UserMsg(<<"q">>),
                    AssistantToolMsg(<<>>, <<TcOk>>),
                    ToolMsg(HandlerResult),
                    AssistantMsg(<<"a", "b">>)>>

\* the requests of the current turn for its initial stream
InitialRequests == SelectSeq(turn.requests, LAMBDA r : r.kind = "initial")

\* C22 as stated: whenever a request has been issued in a turn, the turn's
\* user message had been appended before it, and the history sent in the
\* initial request has that user message as its last element, whatever the
\* foreground did between the submission and the request.
C22_UserMessageSent ==
    turn.requests # <<>>
        => /\ turn.appended # <<>>
           /\ turn.appended[1].role = "user"
           /\ Len(InitialRequests) = 1
           /\ LET sent == InitialRequests[1].messages
              IN  /\ sent # <<>>
                  /\ sent[Len(sent)] = turn.appended[1]

\* C23 as stated: every assistant or tool message in the history has a user
\* message before it: the messages a turn appends land in the conversation
\* that holds the turn's user message, also when New Chat or a load replaced
\* the history while the turn was in flight.
C23_TurnStaysTogether ==
    \A k \in 1..Len(messages) :
        messages[k].role \in {"assistant", "tool"}
            => \E j \in 1..(k - 1) : messages[j].role = "user"

\* the number of tool messages that directly follow position p of msgs
BlockLen(msgs, p) ==
    CHOOSE n \in 0..(Len(msgs) - p) :
        /\ \A j \in 1..n : msgs[p + j].role = "tool"
        /\ p + n < Len(msgs) => msgs[p + n + 1].role # "tool"

\* the dispatch loop of handle_tool_calls has run through all the calls (the
\* worker of the follow-up stream has been started)
DispatchFinished ==
    \/ FinalOpened
    \/ \E k \in 1..Len(threads) : threads[k].kind = "final"

\* C24: every tool message of the history directly follows a tool message or
\* an assistant message with a tool_calls field; the block of tool messages
\* that follows such an assistant message never has more messages than the
\* list has calls, and has exactly as many once the dispatch loop has run
\* through all the calls.
C24_ToolBlocks ==
    /\ \A k \in 1..Len(messages) :
          messages[k].role = "tool"
             => /\ k > 1
                /\ \/ messages[k - 1].role = "tool"
                   \/ "tool_calls" \in DOMAIN messages[k - 1]
    /\ \A p \in 1..Len(messages) :
          "tool_calls" \in DOMAIN messages[p]
             => /\ BlockLen(messages, p) <= Len(messages[p].tool_calls)
                /\ DispatchFinished
                      => BlockLen(messages, p) = Len(messages[p].tool_calls)

C24_Witness ==
    /\ TurnOver
    /\ messages = turn.appended
    /\ Len(messages) = 5
    /\ Len(messages[2].tool_calls) = 2
    /\ messages[3].role = "tool"
    /\ messages[4].role = "tool"
    /\ messages[5].role = "assistant"

\* the fragment has done = true
DoneFragment(f) == "done" \in DOMAIN f /\ f.done = TRUE

\* C25: a worker that is still iterating has been handed no done fragment;
\* and when its stream ended with done, the done fragment is the last one it
\* was handed, no error fragment came before it, the text the worker has
\* accumulated is the concatenation of the deltas of all fragments up to and
\* including the done fragment, and (initial stream, the only one that reads
\* tool calls) the calls it has accumulated are those of all fragments up to
\* and including the done fragment.
C25_DoneEndsStream ==
    \A k \in 1..Len(threads) :
        LET th == threads[k]
            n  == Len(th.frags)
            s  == IF th.kind = "initial" THEN turn.initial ELSE turn.final
        IN  /\ th.pc = "stream"
                  => \A j \in 1..n : ~DoneFragment(th.frags[j])
            /\ (th.pc = "after" /\ s.end = "done")
                  => /\ n > 0
                     /\ DoneFragment(th.frags[n])
                     /\ \A j \in 1..(n - 1) :
                           /\ ~DoneFragment(th.frags[j])
                           /\ "error" \notin DOMAIN th.frags[j]
                     /\ th.response_text = ConcatDeltas(th.frags)
                     /\ th.kind = "initial"
                           => th.tool_calls = AllCalls(th.frags)

C25_Witness ==
    \E k \in 1..Len(threads) :
        /\ threads[k].kind = "initial"
        /\ threads[k].pc = "after"
        /\ turn.initial.end = "done"
        /\ threads[k].frags = <<ContentChunk(<<"a">>), DoneFullChunk>>
        /\ threads[k].response_text = <<"a", "b">>
        /\ threads[k].tool_calls = <<TcUnknown>>

\* the worker of the initial stream has ended
InitialWorkerGone ==
    \A k \in 1..Len(threads) : threads[k].kind # "initial"

\* one assistant message with the text, if there is any text
TextMessage(text) ==
    IF text # <<>> THEN <<[role |-> "assistant", content |-> text]>> ELSE <<>>

\* C26: when the initial stream carried no tool call and was ended by an
\* error fragment, the turn has appended after the user message one assistant
\* message with the text accumulated before the error if that text is
\* non-empty, and nothing otherwise; when the follow-up stream was ended by
\* an error fragment, the turn has appended after the tool messages one
\* assistant message with the text accumulated before the error if that
\* text is non-empty, and nothing otherwise.
C26_ErrorKeepsText ==
    /\ (turn.initial.end = "error" /\ turn.initial.calls = <<>>
            /\ InitialWorkerGone)
          => turn.appended =
               SubSeq(turn.appended, 1, 1) \o TextMessage(turn.initial.text)
    /\ (turn.final.end = "error" /\ FinalWorkerGone)
          => turn.appended = BeforeFinal \o TextMessage(turn.final.text)

C26_Witness ==
    /\ TurnOver
    /\ turn.final.end = "error"
    /\ turn.final.text = <<"a">>
    /\ turn.initial.end = "done"
    /\ messages = <<UserMsg(<<"q">>),
                    AssistantToolMsg(<<"b">>, <<TcUnknown>>),
                    ToolMsg(NotFoundPayload("nope")),
                    AssistantMsg(<<"a">>)>>

====
